---- MODULE Spec2Model ----
(***************************************************************************)
(* Model of src/main.py: a Block with its calculate_hash / mine_block, and *)
(* a Blockchain with add_document, mine_pending_documents and              *)
(* verify_document.                                                        *)
(*                                                                         *)
(* A hex string is a sequence of digits 0..15.  SHA-256 is modelled as a   *)
(* deterministic function from the hashed bytes (here: a natural number    *)
(* that encodes them) to a hex string of HashLen digits.  The leading      *)
(* HashLen-1 digits depend on the code modulo HashRange, the last digit on *)
(* the rest of it, so that different inputs can collide, most inputs have  *)
(* fewer than `difficulty` leading zeros, and a nonce search always finds  *)
(* a hash with `difficulty` leading zeros within HashRange steps.          *)
(*                                                                         *)
(* Each caller is a thread with a program counter: mine_pending_documents  *)
(* is modelled statement by statement, so the states in which a candidate  *)
(* block is being mined are states of the model.  Spec runs one caller     *)
(* (the program as written: calls happen one after the other); SpecConc    *)
(* runs two callers on the same Blockchain object.                         *)
(***************************************************************************)
EXTENDS Integers, Sequences, FiniteSets, TLC

\* ---- bounds of the model ------------------------------------------------
MaxChain == 3
HashLen == 5
HashRange == 5

\* ---- program constants --------------------------------------------------
difficulty == 4

\* ---- input sets ---------------------------------------------------------
Threads == {1, 2}
Paths == {"a.txt", "b.pdf"}
Contents == {1, 2}
Missing == 0
\* the inputs of the two-caller specification
ConcPaths == {"a.txt"}

\* ---- hex strings and hashing --------------------------------------------
RECURSIVE Pow(_, _)
Pow(b, n) == IF n = 0 THEN 1 ELSE b * Pow(b, n - 1)

ToHex(v, n) == [i \in 1..n |-> (v \div Pow(16, n - i)) % 16]

RECURSIVE HexVal(_)
HexVal(s) == IF s = <<>> THEN 0 ELSE 16 * HexVal(SubSeq(s, 1, Len(s) - 1)) + s[Len(s)]

Zeros(n) == [i \in 1..n |-> 0]

\* s[:n] of Python: the first n characters, fewer when s is shorter.
Prefix(s, n) == SubSeq(s, 1, IF n < Len(s) THEN n ELSE Len(s))

\* hashlib.sha256(bytes).hexdigest(), bytes given by their code
Sha256Hex(code) ==
    ToHex((((code % HashRange) * 4099) % Pow(16, HashLen - 1)) * 16
            + ((code \div HashRange) % 16), HashLen)

\* hashlib.sha256(f.read()).hexdigest() of a file with the given content
FileHash(content) == Sha256Hex(31 * content + 5)

\* ---- dictionaries -------------------------------------------------------
EmptyDict == [p \in {} |-> <<>>]

DictSet(d, k, v) == [p \in (DOMAIN d) \cup {k} |-> IF p = k THEN v ELSE d[p]]

PathCode(p) == IF p = "a.txt" THEN 1 ELSE 2

RECURSIVE SumOver(_, _)
SumOver(d, keys) ==
    IF keys = {} THEN 0
    ELSE LET k == CHOOSE x \in keys : TRUE
         IN  PathCode(k) * ((HexVal(d[k]) % 97) + 1) + SumOver(d, keys \ {k})

\* json.dumps(..., sort_keys=True) of the documents dictionary, as a number
DictCode(d) == SumOver(d, DOMAIN d)

\* ---- Block --------------------------------------------------------------
\* json.dumps({...}, sort_keys=True).encode() of the five hashed fields
BlockString(index, timestamp, data, previous_hash, nonce) ==
    7 * index + 11 * timestamp + 13 * DictCode(data.documents)
      + 3 * HexVal(previous_hash) + nonce

calculate_hash(b) ==
    Sha256Hex(BlockString(b.index, b.timestamp, b.data, b.previous_hash, b.nonce))

\* Block.__init__ with time.time() returning `now`
NewBlock(index, data, previous_hash, now) ==
    LET b0 == [index |-> index, timestamp |-> now, data |-> data,
               previous_hash |-> previous_hash, nonce |-> 0, hash |-> <<>>]
    IN  [b0 EXCEPT !.hash = calculate_hash(b0)]

\* the loop condition with the comparison inverted
NeedsWorkInverted(b, d) == Prefix(b.hash, d) = Zeros(d)

\* the loop condition of mine_block
NeedsWork(b, d) == Prefix(b.hash, d) # Zeros(d)

\* an iteration that recomputes the hash before it increments the nonce
MineIterationStale(b) ==
    LET b1 == [b EXCEPT !.hash = calculate_hash(b)]
    IN  [b1 EXCEPT !.nonce = b.nonce + 1]

\* an iteration that steps the nonce by two
MineIterationByTwo(b) ==
    LET b1 == [b EXCEPT !.nonce = b.nonce + 2]
    IN  [b1 EXCEPT !.hash = calculate_hash(b1)]

\* an iteration that does not step the nonce
MineIterationStuck(b) == [b EXCEPT !.hash = calculate_hash(b)]

\* an iteration that also takes a new timestamp
MineIterationRestamped(b) ==
    LET b1 == [b EXCEPT !.nonce = b.nonce + 1, !.timestamp = b.timestamp + 1]
    IN  [b1 EXCEPT !.hash = calculate_hash(b1)]

\* one iteration of the loop of mine_block
MineIteration(b) ==
    LET b1 == [b EXCEPT !.nonce = b.nonce + 1]
    IN  [b1 EXCEPT !.hash = calculate_hash(b1)]

NoBlock == [index |-> -1, timestamp |-> 0, data |-> [documents |-> EmptyDict],
            previous_hash |-> <<>>, nonce |-> 0, hash |-> <<>>]

\* ---- results of a call --------------------------------------------------
None == [tag |-> "None", val |-> 0]
Float(ts) == [tag |-> "float", val |-> ts]
FileNotFoundError == [tag |-> "FileNotFoundError", val |-> 0]
\* the call has not returned yet
Running == [tag |-> "running", val |-> 0]

\* ---- state --------------------------------------------------------------
VARIABLES
    chain,              \* Blockchain.chain
    pending_documents,  \* Blockchain.pending_documents
    clock,              \* what the next call of time.time() returns
    pc,                 \* per caller: the statement it is at
    op,                 \* per caller: the method it called last
    file_path,          \* per caller: the argument of that call
    file_hash,          \* per caller: file_hash / current_hash of that call
    ret,                \* per caller: what that call returned or raised
    last_block,         \* per caller: local of mine_pending_documents
    new_data,           \* per caller: local of mine_pending_documents
    new_block,          \* per caller: local of mine_pending_documents
    entry,              \* history, per caller: chain length and registry when
                        \* the running mine_pending_documents was entered
    replaced            \* history: the (path, hash) pairs of the current batch
                        \* that a later add_document of the same path replaced

vars == <<chain, pending_documents, clock, pc, op, file_path, file_hash, ret,
          last_block, new_data, new_block, entry, replaced>>

call == <<op, file_path, file_hash>>

locals == <<last_block, new_data, new_block, entry>>

NoEntry == [len |-> 0, pending |-> EmptyDict]

\* Blockchain.__init__ with create_genesis_block
Init ==
    /\ chain = <<NewBlock(0, [documents |-> EmptyDict], <<0>>, 1)>>
    /\ clock = 2
    /\ pending_documents = EmptyDict
    /\ pc = [t \in Threads |-> "idle"]
    /\ op = [t \in Threads |-> "none"]
    /\ file_path = [t \in Threads |-> "none"]
    /\ file_hash = [t \in Threads |-> <<>>]
    /\ ret = [t \in Threads |-> None]
    /\ last_block = [t \in Threads |-> NoBlock]
    /\ new_data = [t \in Threads |-> [documents |-> EmptyDict]]
    /\ new_block = [t \in Threads |-> NoBlock]
    /\ entry = [t \in Threads |-> NoEntry]
    /\ replaced = {}

get_last_block == chain[Len(chain)]

\* ---- add_document -------------------------------------------------------
\* an add that keeps the first hash registered for a path
RegisteredFirstWins(d, path, hash) == IF path \in DOMAIN d THEN d ELSE DictSet(d, path, hash)

\* an add that starts a new registry
RegisteredAlone(d, path, hash) == DictSet(EmptyDict, path, hash)

\* line 75
Registered(d, path, hash) == DictSet(d, path, hash)

\* history: a batch starts with the first add_document on an empty registry
Replaced(path, hash) ==
    IF pending_documents = EmptyDict THEN {}
    ELSE IF path \in DOMAIN pending_documents /\ pending_documents[path] # hash
         THEN (replaced \cup {<<path, pending_documents[path]>>}) \ {<<path, hash>>}
         ELSE replaced \ {<<path, hash>>}

\* an add that catches the error of open and registers the hash of no bytes
AddOutcomeSwallowed(d, path, content) ==
    [registry |-> Registered(d, path, FileHash(content)),
     file_hash |-> FileHash(content), ret |-> None]

\* lines 71-76. content is what open(file_path, "rb").read() yields, Missing
\* when the file does not exist (open raises FileNotFoundError, nothing else
\* runs).
AddOutcome(d, path, content) ==
    IF content = Missing
    THEN [registry |-> d, file_hash |-> <<>>, ret |-> FileNotFoundError]
    ELSE [registry |-> Registered(d, path, FileHash(content)),
          file_hash |-> FileHash(content), ret |-> None]

add_document(t, path, content) ==
    LET out == AddOutcome(pending_documents, path, content)
    IN  /\ pc[t] = "idle"
        /\ op' = [op EXCEPT ![t] = "add_document"]
        /\ file_path' = [file_path EXCEPT ![t] = path]
        /\ file_hash' = [file_hash EXCEPT ![t] = out.file_hash]
        /\ pending_documents' = out.registry
        /\ ret' = [ret EXCEPT ![t] = out.ret]
        /\ replaced' = IF content = Missing THEN replaced
                       ELSE Replaced(path, FileHash(content))
        /\ UNCHANGED <<chain, clock, pc, locals>>

\* ---- mine_pending_documents ---------------------------------------------
\* a test that never finds the registry empty
NothingPendingNever == FALSE

\* line 83: `not self.pending_documents`
NothingPending == pending_documents = EmptyDict

\* lines 83-85: the registry is empty
MineEmpty(t) ==
    /\ pc[t] = "idle"
    /\ NothingPending
    /\ op' = [op EXCEPT ![t] = "mine_pending_documents"]
    /\ file_path' = [file_path EXCEPT ![t] = "none"]
    /\ file_hash' = [file_hash EXCEPT ![t] = <<>>]
    /\ ret' = [ret EXCEPT ![t] = None]
    /\ UNCHANGED <<replaced, chain, pending_documents, clock, pc, locals>>

\* lines 83, 88: the registry is not empty; read the last block
MineBegin(t) ==
    /\ pc[t] = "idle"
    /\ ~NothingPending
    /\ Len(chain) < MaxChain
    /\ op' = [op EXCEPT ![t] = "mine_pending_documents"]
    /\ file_path' = [file_path EXCEPT ![t] = "none"]
    /\ file_hash' = [file_hash EXCEPT ![t] = <<>>]
    /\ ret' = [ret EXCEPT ![t] = Running]
    /\ entry' = [entry EXCEPT ![t] = [len |-> Len(chain), pending |-> pending_documents]]
    /\ last_block' = [last_block EXCEPT ![t] = get_last_block]
    /\ pc' = [pc EXCEPT ![t] = "L89"]
    /\ UNCHANGED <<replaced, chain, pending_documents, clock, new_data, new_block>>

\* line 89
CopyPending(d) == [documents |-> d]

MineCopy(t) ==
    /\ pc[t] = "L89"
    /\ new_data' = [new_data EXCEPT ![t] = CopyPending(pending_documents)]
    /\ pc' = [pc EXCEPT ![t] = "L92"]
    /\ UNCHANGED <<replaced, chain, pending_documents, clock, call, ret, last_block, new_block, entry>>

\* a candidate linked to the first block instead of the last
CandidateOnGenesis(t) == NewBlock(Len(chain), new_data[t], chain[1].hash, clock)

\* a candidate that takes the index of the last block
CandidateIndexOfLast(t) == NewBlock(last_block[t].index, new_data[t], last_block[t].hash, clock)

\* lines 92-96
Candidate(t) == NewBlock(Len(chain), new_data[t], last_block[t].hash, clock)

MineConstruct(t) ==
    /\ pc[t] = "L92"
    /\ new_block' = [new_block EXCEPT ![t] = Candidate(t)]
    /\ clock' = clock + 1
    /\ pc' = [pc EXCEPT ![t] = "L97"]
    /\ UNCHANGED <<replaced, chain, pending_documents, call, ret, last_block, new_data, entry>>

\* line 97, lines 37-39: one iteration of the nonce search
MineStep(t) ==
    /\ pc[t] = "L97"
    /\ NeedsWork(new_block[t], difficulty)
    /\ new_block' = [new_block EXCEPT ![t] = MineIteration(new_block[t])]
    /\ UNCHANGED <<replaced, chain, pending_documents, clock, pc, call, ret, last_block, new_data, entry>>

\* line 37: the loop ends
MineFound(t) ==
    /\ pc[t] = "L97"
    /\ ~NeedsWork(new_block[t], difficulty)
    /\ pc' = [pc EXCEPT ![t] = "L100"]
    /\ UNCHANGED <<replaced, chain, pending_documents, clock, call, ret, locals>>

\* an append that overwrites the last block
AppendedOverLast(c, b) == [c EXCEPT ![Len(c)] = b]

\* an insert at the front of the chain
Prepended(c, b) == <<b>> \o c

\* line 100
Appended(c, b) == Append(c, b)

MineAppend(t) ==
    /\ pc[t] = "L100"
    /\ chain' = Appended(chain, new_block[t])
    /\ pc' = [pc EXCEPT ![t] = "L101"]
    /\ UNCHANGED <<replaced, pending_documents, clock, call, ret, locals>>

\* a registry that is not reset
ClearedNot(d) == d

\* line 101
Cleared(d) == EmptyDict

\* a method that returns the block it appended
MineResultBlock(b) == [tag |-> "Block", val |-> b]

\* the method has no return statement
MineResult(b) == None

\* lines 101-102 and the return; the locals go away
MineClear(t) ==
    /\ pc[t] = "L101"
    /\ pending_documents' = Cleared(pending_documents)
    /\ ret' = [ret EXCEPT ![t] = MineResult(new_block[t])]
    /\ pc' = [pc EXCEPT ![t] = "idle"]
    /\ last_block' = [last_block EXCEPT ![t] = NoBlock]
    /\ new_data' = [new_data EXCEPT ![t] = [documents |-> EmptyDict]]
    /\ new_block' = [new_block EXCEPT ![t] = NoBlock]
    /\ entry' = [entry EXCEPT ![t] = NoEntry]
    /\ UNCHANGED <<replaced, chain, clock, call>>

\* ---- verify_document ----------------------------------------------------
\* line 114: self.chain[1:]
AfterGenesis(c) == Tail(c)

\* a match on the hash alone
HoldsAnyPath(block, path, current_hash) ==
    \E p \in DOMAIN block.data.documents : block.data.documents[p] = current_hash

\* lines 115-117: the block holds the pair
Holds(block, path, current_hash) ==
    \E p \in DOMAIN block.data.documents :
        /\ block.data.documents[p] = current_hash
        /\ p = path

\* lines 114-119: the scan
RECURSIVE Scan(_, _, _)
Scan(blocks, path, current_hash) ==
    IF blocks = <<>> THEN None
    ELSE IF Holds(Head(blocks), path, current_hash)
         THEN Float(Head(blocks).timestamp)
         ELSE Scan(Tail(blocks), path, current_hash)

verify_document(t, path, content) ==
    /\ pc[t] = "idle"
    /\ op' = [op EXCEPT ![t] = "verify_document"]
    /\ file_path' = [file_path EXCEPT ![t] = path]
    /\ IF content = Missing
       THEN /\ file_hash' = [file_hash EXCEPT ![t] = <<>>]
            /\ ret' = [ret EXCEPT ![t] = FileNotFoundError]
       ELSE /\ file_hash' = [file_hash EXCEPT ![t] = FileHash(content)]
            /\ ret' = [ret EXCEPT ![t] = Scan(AfterGenesis(chain), path, FileHash(content))]
    /\ UNCHANGED <<replaced, chain, pending_documents, clock, pc, locals>>

\* ---- specifications -----------------------------------------------------
Step(t, paths) ==
    \/ \E path \in paths, content \in Contents \cup {Missing} : add_document(t, path, content)
    \/ MineEmpty(t)
    \/ MineBegin(t)
    \/ MineCopy(t)
    \/ MineConstruct(t)
    \/ MineStep(t)
    \/ MineFound(t)
    \/ MineAppend(t)
    \/ MineClear(t)
    \/ \E path \in paths, content \in Contents \cup {Missing} : verify_document(t, path, content)

\* one caller: the calls run one after the other
Next == Step(1, Paths)

Spec == Init /\ [][Next]_vars

\* the steps of mine_pending_documents after its entry: the method runs to
\* its end once it is called
SealSteps(t) ==
    \/ MineCopy(t)
    \/ MineConstruct(t)
    \/ MineStep(t)
    \/ MineFound(t)
    \/ MineAppend(t)
    \/ MineClear(t)

\* one caller that keeps running the method it is in
NextLive == Step(1, ConcPaths)

SpecLive == Init /\ [][NextLive]_vars /\ WF_vars(SealSteps(1))

\* two callers on the same Blockchain
NextConc == \E t \in Threads : Step(t, ConcPaths)

SpecConc == Init /\ [][NextConc]_vars

\* ---- properties ---------------------------------------------------------
Documents(i) == chain[i].data.documents

\* a call of mine_pending_documents by t returns after its append
SealReturns(t) == pc[t] = "L101" /\ pc'[t] = "idle"

\* C1: chain linkage. In every state reached by calls made one after the
\* other, every block after the first carries the hash of the block before it.
ChainLinkage ==
    \A i \in 2..Len(chain) : chain[i].previous_hash = chain[i - 1].hash

TwoLinkedBlocks == Len(chain) = 3 /\ chain[2].hash # chain[1].hash

\* C2: work admission. In every state, the states in which a candidate is
\* still being mined included, the hash of every block after the first
\* starts with `difficulty` zeros; and the chain changes only by one step
\* that appends a candidate whose nonce search has ended.
WorkAdmission ==
    /\ [](\A i \in 2..Len(chain) : Prefix(chain[i].hash, difficulty) = Zeros(difficulty))
    /\ [][chain' # chain =>
            \E t \in Threads :
                /\ pc[t] = "L100"
                /\ Prefix(new_block[t].hash, difficulty) = Zeros(difficulty)
                /\ chain' = Append(chain, new_block[t])]_vars

MiningUnderway ==
    /\ Len(chain) = 2
    /\ pc[1] = "L97"
    /\ new_block[1].nonce >= 1
    /\ Prefix(new_block[1].hash, difficulty) # Zeros(difficulty)

\* C3: fingerprint consistency. In every state the stored hash of every
\* block of the chain, the first included, is the hash of its index,
\* timestamp, data, previous_hash and nonce.
FingerprintConsistency ==
    \A i \in 1..Len(chain) :
        chain[i].hash =
            Sha256Hex(BlockString(chain[i].index, chain[i].timestamp, chain[i].data,
                                  chain[i].previous_hash, chain[i].nonce))

MinedBlockThenLaterCalls ==
    /\ Len(chain) = 3
    /\ chain[2].nonce >= 2
    /\ pending_documents # EmptyDict

\* C4: verification correctness. A verify_document that found the file
\* returns a timestamp iff some block with index >= 1 holds exactly that path
\* with exactly that hash, and then the timestamp of the first such block;
\* otherwise None. Pending entries and the first block never match.
Matches(path, hash) ==
    {i \in 1..Len(chain) :
        /\ chain[i].index >= 1
        /\ path \in DOMAIN Documents(i)
        /\ Documents(i)[path] = hash}

Earliest(S) == CHOOSE i \in S : \A j \in S : i <= j

VerificationCorrectness ==
    \A t \in Threads :
        (pc[t] = "idle" /\ op[t] = "verify_document" /\ ret[t] # FileNotFoundError) =>
            LET m == Matches(file_path[t], file_hash[t])
            IN  IF m = {} THEN ret[t] = None
                ELSE ret[t] = Float(chain[Earliest(m)].timestamp)

VerifiedEarliestOfTwo ==
    /\ op[1] = "verify_document"
    /\ Matches(file_path[1], file_hash[1]) = {2, 3}
    /\ ret[1] = Float(chain[2].timestamp)
    /\ chain[3].timestamp # chain[2].timestamp

\* C5: empty batch. A mine_pending_documents entered with an empty registry
\* returns at once and leaves the chain and the registry as they were, every
\* time it is called.
EmptyBatchNoOp ==
    [][\A t \in Threads :
          ((MineEmpty(t) \/ MineBegin(t)) /\ pending_documents = EmptyDict)
          => (pc'[t] = "idle" /\ chain' = chain /\ pending_documents' = pending_documents)]_vars

EmptySealDone ==
    /\ Len(chain) = 1
    /\ pending_documents = EmptyDict
    /\ op[1] = "mine_pending_documents"
    /\ pc[1] = "idle"

\* C6: registry clearing. When a mine_pending_documents that found the
\* registry non-empty returns, the registry is empty, the chain is one block
\* longer than at its entry and the documents of the new last block are the
\* registry as it was at its entry.
RegistryClearing ==
    [][\A t \in Threads :
          SealReturns(t) =>
              /\ pending_documents' = EmptyDict
              /\ Len(chain') = entry[t].len + 1
              /\ chain'[Len(chain')].data.documents = entry[t].pending]_vars

SealedTwoDocuments ==
    /\ pc[1] = "idle"
    /\ op[1] = "mine_pending_documents"
    /\ pending_documents = EmptyDict
    /\ Len(chain) >= 2
    /\ DOMAIN Documents(Len(chain)) = Paths

\* C7: append-only chain. No step shortens the chain or changes a block
\* that is in it.
AppendOnly ==
    [][/\ Len(chain') >= Len(chain)
       /\ \A i \in 1..Len(chain) : chain'[i] = chain[i]]_vars

AddAfterSeal ==
    /\ Len(chain) >= 2
    /\ op[1] = "add_document"
    /\ \E p \in DOMAIN pending_documents :
          /\ p \in DOMAIN Documents(2)
          /\ pending_documents[p] # Documents(2)[p]

\* C8: overwrite semantics. A path registered with hash H1 and then with H4
\* in the same batch is in the registry, and in the block sealed from it,
\* once and with H4; after the seal verify_document of the path finds H4 and
\* does not find H1, unless an earlier block holds the path with H1.
BatchSealed == pending_documents = EmptyDict /\ Len(chain) >= 2

Overwrite ==
    \A pr \in replaced :
        LET p == pr[1]
            h1 == pr[2]
        IN  /\ ~BatchSealed =>
                (p \in DOMAIN pending_documents /\ pending_documents[p] # h1)
            /\ BatchSealed =>
                /\ p \in DOMAIN Documents(Len(chain))
                /\ Documents(Len(chain))[p] # h1
                /\ (pc[1] = "idle" /\ op[1] = "verify_document" /\ file_path[1] = p) =>
                      /\ file_hash[1] = Documents(Len(chain))[p] => ret[1].tag = "float"
                      /\ (file_hash[1] = h1
                            /\ \A i \in 2..(Len(chain) - 1) :
                                  ~(p \in DOMAIN Documents(i) /\ Documents(i)[p] = h1))
                         => ret[1] = None

OverwrittenHashMissed ==
    /\ BatchSealed
    /\ op[1] = "verify_document"
    /\ <<file_path[1], file_hash[1]>> \in replaced
    /\ ret[1] = None

\* C9 as stated: a mine_pending_documents that found the registry non-empty
\* returns the block it appended.
SealReturnsBlock ==
    [][\A t \in Threads :
          SealReturns(t) =>
              (ret'[t].tag = "Block" /\ ret'[t].val = chain'[Len(chain')])]_vars

\* C9, amended: mine_pending_documents returns None in both cases; when the
\* registry was not empty the block it mined is the new last block of the
\* chain at its return.
SealReturnsNone ==
    [][\A t \in Threads :
          /\ SealReturns(t) =>
                /\ ret'[t] = None
                /\ Len(chain') = entry[t].len + 1
                /\ chain'[Len(chain')] = new_block[t]
          /\ MineEmpty(t) => ret'[t] = None]_vars

SealReturned ==
    /\ pc[1] = "idle"
    /\ op[1] = "mine_pending_documents"
    /\ ret[1] = None
    /\ Len(chain) = 3
    /\ pending_documents = EmptyDict

\* C10: exclusive seal. With two callers of mine_pending_documents on the
\* same Blockchain, every block after the first carries the hash of the block
\* before it and every block's index is its position.
ExclusiveSeal ==
    \A i \in 2..Len(chain) :
        /\ chain[i].previous_hash = chain[i - 1].hash
        /\ chain[i].index = i - 1

\* C11: no lost pending document. With an add_document running while
\* another caller is between the copy and the reset of the registry, every
\* entry of the registry at the reset is in the block that caller appended,
\* with the same hash, or is still in the registry after the reset.
NoLostDocument ==
    [][\A t \in Threads :
          SealReturns(t) =>
              \A p \in DOMAIN pending_documents :
                  \/ /\ p \in DOMAIN new_block[t].data.documents
                     /\ new_block[t].data.documents[p] = pending_documents[p]
                  \/ /\ p \in DOMAIN pending_documents'
                     /\ pending_documents'[p] = pending_documents[p]]_vars

\* C12: a verification miss is not an error. A verify_document of a path
\* that was never added (it is in no block and not in the registry) returns
\* None and raises nothing.
NeverAdded(path) ==
    /\ path \notin DOMAIN pending_documents
    /\ \A i \in 1..Len(chain) : path \notin DOMAIN Documents(i)

VerifyMissIsNoError ==
    \A t \in Threads :
        (pc[t] = "idle" /\ op[t] = "verify_document" /\ NeverAdded(file_path[t]))
            => ret[t] = None

\* C13: genesis and non-emptiness. After construction the chain is one
\* block with index 0, no documents, previous_hash "0" and nonce 0, and the
\* registry is empty; in every later state the chain is not empty and its
\* first block is that block.
IsGenesis(b) ==
    /\ b.index = 0
    /\ b.data.documents = EmptyDict
    /\ b.previous_hash = <<0>>
    /\ b.nonce = 0

GenesisKept ==
    /\ (Len(chain) = 1 /\ IsGenesis(chain[1]) /\ pending_documents = EmptyDict)
    /\ [](Len(chain) >= 1 /\ IsGenesis(chain[1]))
    /\ [][chain'[1] = chain[1]]_vars

GenesisUnderTwoBlocks ==
    /\ Len(chain) = 3
    /\ IsGenesis(chain[1])
    /\ ~IsGenesis(chain[2])
    /\ get_last_block = chain[3]

\* C15: a missing file leaves the state unchanged. An add_document whose
\* file cannot be read raises FileNotFoundError to the caller, computes no
\* hash and changes neither the registry nor the chain.
NotFoundChangesNothing ==
    [][\A t \in Threads, p \in Paths :
          add_document(t, p, Missing) =>
              /\ ret'[t] = FileNotFoundError
              /\ file_hash'[t] = <<>>
              /\ pending_documents' = pending_documents
              /\ chain' = chain]_vars

AddRaisedNotFound ==
    /\ op[1] = "add_document"
    /\ ret[1] = FileNotFoundError
    /\ pending_documents # EmptyDict
    /\ file_path[1] \notin DOMAIN pending_documents
    /\ Len(chain) = 2

\* the block b with nonce n meets the difficulty
Meets(b, n) ==
    Prefix(Sha256Hex(BlockString(b.index, b.timestamp, b.data, b.previous_hash, n)),
           difficulty) = Zeros(difficulty)

\* C16 as stated: every mined block ends with the least nonce n >= 1 whose
\* hash has `difficulty` leading zeros.
LeastNonceFromOne ==
    \A i \in 2..Len(chain) :
        /\ chain[i].nonce >= 1
        /\ Meets(chain[i], chain[i].nonce)
        /\ \A n \in 1..(chain[i].nonce - 1) : ~Meets(chain[i], n)

\* C16, amended: the condition is tested before each {increment, recompute}
\* step, the first included, so every mined block ends with the least nonce
\* n >= 0 whose hash has `difficulty` leading zeros: nonce 0 stays when the
\* hash computed at construction already has them.
LeastNonceFromZero ==
    /\ \A i \in 2..Len(chain) :
          /\ Meets(chain[i], chain[i].nonce)
          /\ \A n \in 0..(chain[i].nonce - 1) : ~Meets(chain[i], n)
    /\ \A t \in Threads :
          pc[t] \in {"L97", "L100", "L101"} =>
              \A n \in 0..(new_block[t].nonce - 1) : ~Meets(new_block[t], n)

MinedWithNonceThree ==
    /\ Len(chain) >= 2
    /\ chain[Len(chain)].nonce = 3
    /\ pc[1] = "L101"

\* C17: index equals position. In every state the index of the block at
\* position i of the chain, counted from 0, is i.
IndexIsPosition ==
    \A i \in 1..Len(chain) : chain[i].index = i - 1

ThirdBlockIndexTwo ==
    /\ Len(chain) = 3
    /\ chain[3].index = 2
    /\ entry[1].len = 2

\* C14: a seal completes. Every mine_pending_documents that found the
\* registry non-empty reaches its append, of the block it mined as the new
\* last block, and then returns; a caller leaves the method only from its
\* last statement.
SealCompletes ==
    /\ (pc[1] = "L89") ~>
          (pc[1] = "L101" /\ Len(chain) = entry[1].len + 1
             /\ get_last_block = new_block[1])
    /\ (pc[1] = "L101") ~> (pc[1] = "idle")
    /\ [][(pc[1] # "idle" /\ pc'[1] = "idle") => pc[1] = "L101"]_vars

SearchTookFourSteps ==
    /\ pc[1] = "L100"
    /\ new_block[1].nonce = 4

\* C18: mining frame. A step of the nonce search changes the nonce and the
\* hash of the candidate only: its index, timestamp, data and previous_hash
\* are those of its construction, and the nonce starts at 0 and goes up by 1.
MiningFrame ==
    [][\A t \in Threads :
          /\ (pc[t] = "L92" /\ pc'[t] = "L97") => new_block'[t].nonce = 0
          /\ (pc[t] = "L97" /\ new_block'[t] # new_block[t]) =>
                /\ new_block'[t].index = new_block[t].index
                /\ new_block'[t].timestamp = new_block[t].timestamp
                /\ new_block'[t].data = new_block[t].data
                /\ new_block'[t].previous_hash = new_block[t].previous_hash
                /\ new_block'[t].nonce = new_block[t].nonce + 1
                /\ chain' = chain
                /\ pending_documents' = pending_documents]_vars

SecondSearchStep ==
    /\ pc[1] = "L97"
    /\ new_block[1].nonce = 2
    /\ new_block[1].index = 1
    /\ new_block[1].data.documents = pending_documents

\* C19: frame of add and verify. add_document changes the registry entry of
\* its path and nothing else of the registry or the chain; verify_document
\* changes neither; entries leave the registry only at the return of a
\* mine_pending_documents that appended a block, and then all of them.
\* the step is a whole call of `method` by t: t is idle before and after it,
\* its last call is then `method`, and no other caller moved
Called(t, method) ==
    /\ pc[t] = "idle" /\ pc'[t] = "idle"
    /\ op'[t] = method
    /\ \A u \in Threads \ {t} :
          /\ pc'[u] = pc[u] /\ op'[u] = op[u] /\ ret'[u] = ret[u]
          /\ file_path'[u] = file_path[u] /\ file_hash'[u] = file_hash[u]

FrameOfAddAndVerify ==
    [][/\ \A t \in Threads :
            /\ Called(t, "add_document") =>
                  /\ chain' = chain
                  /\ DOMAIN pending_documents' \subseteq
                        DOMAIN pending_documents \cup {file_path'[t]}
                  /\ \A q \in DOMAIN pending_documents \ {file_path'[t]} :
                        /\ q \in DOMAIN pending_documents'
                        /\ pending_documents'[q] = pending_documents[q]
            /\ Called(t, "verify_document") =>
                  (chain' = chain /\ pending_documents' = pending_documents)
       /\ ~(DOMAIN pending_documents \subseteq DOMAIN pending_documents') =>
            /\ pending_documents' = EmptyDict
            /\ \E t \in Threads :
                  /\ SealReturns(t)
                  /\ Len(chain) = entry[t].len + 1
                  /\ get_last_block = new_block[t]]_vars

SecondPathAdded ==
    /\ op[1] = "add_document"
    /\ ret[1] = None
    /\ DOMAIN pending_documents = Paths
    /\ pending_documents["a.txt"] # pending_documents["b.pdf"]
    /\ Len(chain) = 1

\* C20: no empty sealed block. In every state every block after the first
\* holds at least one document; the first block holds none.
NoEmptySealedBlock ==
    /\ Documents(1) = EmptyDict
    /\ \A i \in 2..Len(chain) : Documents(i) # EmptyDict

OneDocumentSealedTwice ==
    /\ Len(chain) = 3
    /\ Cardinality(DOMAIN Documents(2)) = 1
    /\ Documents(3) = Documents(2)

====
